---------------------------- MODULE Spec2Model ----------------------------
(***************************************************************************)
(* A model of the payment backend: the three server variants found in      *)
(* src/index.js (the hardened standalone server, the earlier server, and   *)
(* the router-based server whose routes live in routes/paymentRoutes.js),  *)
(* the webhook handler and the two versions of the notification sender.    *)
(*                                                                         *)
(* Each request occupies one slot.  A handler runs synchronously up to its *)
(* first await of an external call (one action), and resumes when the      *)
(* external call resolves or throws (a second action).                     *)
(***************************************************************************)
EXTENDS Integers, Sequences, FiniteSets, TLC

VARIABLES
    deployment,   \* which server variant is running
    mailer,       \* which version of utils/emailService.js is loaded
    nodeEnv,      \* process.env.NODE_ENV
    pc,           \* per slot: where the handler is
    req,          \* per slot: the request being served
    calls,        \* per slot: the external calls issued so far, in order
    ret,          \* per slot: what the last external call returned or threw
    resp,         \* per slot: the HTTP responses sent so far, in order
    invocations,  \* per slot: the arguments sendPaymentConfirmation was invoked with
    promise       \* per slot: the promise of a direct sendPaymentConfirmation call

vars == <<deployment, mailer, nodeEnv, pc, req, calls, ret, resp, invocations, promise>>

(***************************************************************************)
(* Bounds of the model.                                                    *)
(***************************************************************************)
MaxInFlight == 2

Slots == 1..MaxInFlight

(***************************************************************************)
(* JavaScript values.  undefined and null of string-valued fields are      *)
(* marker strings; numbers are tagged records counted in thousandths.      *)
(***************************************************************************)
Undefined == "<undefined>"
Null == "<null>"

Scale == 10 * 10 * 10

Num(m) == [t |-> "number", milli |-> m]
NaN == [t |-> "NaN", milli |-> 0]
PosInfinity == [t |-> "Infinity", milli |-> 0]
NegInfinity == [t |-> "-Infinity", milli |-> 0]

IsNaN(x) == x.t = "NaN"

\* x <= 0 and x > n for a JS number x and an integer n (false for NaN)
LteZero(x) == x.t = "-Infinity" \/ (x.t = "number" /\ x.milli <= 0)
GtInt(x, n) == x.t = "Infinity" \/ (x.t = "number" /\ x.milli > n * Scale)

Digit == {"0", "1", "2", "3", "4", "5", "6", "7", "8", "9"}

DigitVal(c) ==
    CASE c = "0" -> 0 [] c = "1" -> 1 [] c = "2" -> 2 [] c = "3" -> 3
      [] c = "4" -> 4 [] c = "5" -> 5 [] c = "6" -> 6 [] c = "7" -> 7
      [] c = "8" -> 8 [] c = "9" -> 9

DigitStr(d) ==
    CASE d = 0 -> "0" [] d = 1 -> "1" [] d = 2 -> "2" [] d = 3 -> "3"
      [] d = 4 -> "4" [] d = 5 -> "5" [] d = 6 -> "6" [] d = 7 -> "7"
      [] d = 8 -> "8" [] d = 9 -> "9"

\* the i-th character of a string, and the string without its first n characters
CharAt(s, i) == SubSeq(s, i, i)
Drop(s, n) == SubSeq(s, n + 1, Len(s))

\* String.prototype.startsWith and String.prototype.includes
StartsWith(s, prefix) ==
    Len(s) >= Len(prefix) /\ SubSeq(s, 1, Len(prefix)) = prefix
Includes(s, part) ==
    \E i \in 1..(Len(s) - Len(part) + 1) : SubSeq(s, i, i + Len(part) - 1) = part

RECURSIVE TrimStart(_)
TrimStart(s) ==
    IF Len(s) > 0 /\ CharAt(s, 1) = " " THEN TrimStart(Drop(s, 1)) ELSE s

\* length of the longest prefix of s made of decimal digits
RECURSIVE DigitPrefixLen(_)
DigitPrefixLen(s) ==
    IF Len(s) > 0 /\ CharAt(s, 1) \in Digit THEN 1 + DigitPrefixLen(Drop(s, 1)) ELSE 0

\* the value of a string of decimal digits
RECURSIVE DigitsValue(_)
DigitsValue(s) ==
    IF Len(s) = 0 THEN 0
    ELSE 10 * DigitsValue(SubSeq(s, 1, Len(s) - 1)) + DigitVal(CharAt(s, Len(s)))

\* the first three fraction digits, in thousandths
FractionMilli(ds) ==
    LET d(i) == IF i <= Len(ds) THEN DigitVal(CharAt(ds, i)) ELSE 0
    IN  100 * d(1) + 10 * d(2) + d(3)

(***************************************************************************)
(* parseFloat: leading blanks are skipped, then the longest prefix that is *)
(* a decimal literal (sign, digits, fraction) or Infinity is converted;    *)
(* what follows is ignored; no such prefix gives NaN.  Exponents are       *)
(* outside the modelled inputs.                                            *)
(***************************************************************************)
ParseFloat(str) ==
    LET t == TrimStart(str)
        signed == Len(t) > 0 /\ CharAt(t, 1) \in {"+", "-"}
        neg == Len(t) > 0 /\ CharAt(t, 1) = "-"
        u == IF signed THEN Drop(t, 1) ELSE t
        ni == DigitPrefixLen(u)
        afterInt == Drop(u, ni)
        hasDot == Len(afterInt) > 0 /\ CharAt(afterInt, 1) = "."
        nf == IF hasDot THEN DigitPrefixLen(Drop(afterInt, 1)) ELSE 0
        fracDigits == IF hasDot THEN SubSeq(afterInt, 2, nf + 1) ELSE ""
        magnitude == Scale * DigitsValue(SubSeq(u, 1, ni)) + FractionMilli(fracDigits)
    IN  IF StartsWith(u, "Infinity")
        THEN IF neg THEN NegInfinity ELSE PosInfinity
        ELSE IF ni = 0 /\ nf = 0 THEN NaN
        ELSE Num(IF neg THEN 0 - magnitude ELSE magnitude)

\* decimal digits of a natural number
RECURSIVE IntStr(_)
IntStr(n) ==
    IF n < 10 THEN DigitStr(n) ELSE IntStr(n \div 10) \o DigitStr(n % 10)

(***************************************************************************)
(* Number.prototype.toFixed(2) for a number counted in thousandths.        *)
(***************************************************************************)
ToFixed2(x) ==
    IF x.t # "number" THEN x.t
    ELSE LET mag == IF x.milli < 0 THEN 0 - x.milli ELSE x.milli
             cents == (mag + 5) \div 10
             body == IntStr(cents \div 100) \o "." \o DigitStr((cents % 100) \div 10)
                        \o DigitStr(cents % 10)
         IN  IF x.milli < 0 /\ cents > 0 THEN "-" \o body ELSE body


(***************************************************************************)
(* Math.round(amountFloat * 100).  The product is exact except when the    *)
(* amount ends in a half cent: there the IEEE-754 double product lies      *)
(* either exactly on the half (rounded up) or just below it (rounded       *)
(* down).  BelowHalfInDouble lists the modelled amounts, in thousandths,   *)
(* whose double product is below the half (1.005 * 100 =                   *)
(* 100.49999999999999, whereas 49.995 * 100 = 4999.5).                     *)
(***************************************************************************)
BelowHalfInDouble == {1005}

MathRoundTimes100(x) ==
    IF x.t # "number" THEN [t |-> x.t, n |-> 0]
    ELSE LET q == x.milli \div 10
             r == x.milli % 10
         IN  [t |-> "number",
              n |-> IF r > 5 THEN q + 1
                    ELSE IF r < 5 THEN q
                    ELSE IF x.milli \in BelowHalfInDouble THEN q ELSE q + 1]

(***************************************************************************)
(* Request bodies of POST /checkout.                                       *)
(***************************************************************************)
Str(s) == [t |-> "string", text |-> s]
NumLit(s) == [t |-> "number", text |-> s]
NoAmount == [t |-> "undefined", text |-> ""]

\* !s for a string-valued field
Falsy(s) == s \in {Undefined, Null, ""}

\* !amount for the amount field (a JSON string, a JSON number, or missing)
FalsyAmount(a) ==
    CASE a.t = "undefined" -> TRUE
      [] a.t = "string" -> Len(a.text) = 0
      [] a.t = "number" -> LET v == ParseFloat(a.text)
                           IN  v.t = "NaN" \/ (v.t = "number" /\ v.milli = 0)

ServerProviders == {Undefined, "Steam"}
Usernames == {"", "alice"}
Amounts ==
    { NoAmount, NumLit("0"), Str(""), Str("0"), Str("-5"), Str("abc"), Str("12abc"),
      Str("25.99"), Str("1.005"), Str("49.995"), Str("10000"), Str("10000.01") }

\* every amount with both names present, and each way of missing a name
CheckoutBodies ==
    { [serverProvider |-> "Steam", username |-> "alice", amount |-> a] : a \in Amounts }
        \cup { [serverProvider |-> sp, username |-> un, amount |-> Str("25.99")]
               : sp \in ServerProviders, un \in Usernames }

MaxAmount == 10000

(***************************************************************************)
(* The payment processor's SDK, as the handlers see it: a call resolves    *)
(* with a session or throws an error carrying a type and a message.        *)
(* Fields holding an object or null are records tagged by t.               *)
(***************************************************************************)
NullObject == [t |-> "null"]
NullNumber == [t |-> "null", n |-> 0]
Cents(n) == [t |-> "number", n |-> n]

NoIntent == [t |-> "null", id |-> Null, method |-> Null, receipt_url |-> Null]
NoCustomer == [t |-> "null", email |-> Null, name |-> Null]
NoMetadata == [t |-> "null", username |-> Undefined, serverProvider |-> Undefined]

NoSession ==
    [id |-> Undefined, url |-> Undefined, payment_status |-> Undefined,
     amount_total |-> NullNumber, currency |-> Undefined,
     customer_details |-> NoCustomer, payment_intent |-> NoIntent,
     metadata |-> NoMetadata]
NoError == [type |-> Undefined, message |-> ""]

Resolved(session) == [ok |-> TRUE, session |-> session, error |-> NoError]
Threw(error) == [ok |-> FALSE, session |-> NoSession, error |-> error]
NoReturn == [ok |-> FALSE, session |-> NoSession, error |-> NoError]

SessionId == "cs_test_a1B2c3D4e5"

IssuedSession ==
    [NoSession EXCEPT !.id = SessionId,
                      !.url = "https://checkout.stripe.com/c/pay/" \o SessionId,
                      !.payment_status = "unpaid",
                      !.currency = "usd"]

ApiKeyError ==
    [type |-> "StripeAuthenticationError",
     message |-> "Invalid API Key provided: sk_live_***"]

CreateOutcomes == {Resolved(IssuedSession), Threw(ApiKeyError)}

(***************************************************************************)
(* What a handler does in one synchronous run: it either sends a response  *)
(* and ends, or issues an external call and waits for it.                  *)
(***************************************************************************)
Response(code, body) == [code |-> code, body |-> body]
NoCall == [api |-> "none"]
NoResponse == Response(0, <<>>)

Reply(response) ==
    [kind |-> "reply", response |-> response, call |-> NoCall, next |-> "done",
     invoked |-> <<>>]
Await(label, call) ==
    [kind |-> "await", response |-> NoResponse, call |-> call, next |-> label,
     invoked |-> <<>>]

\* req.ip.replace(/::ffff:/, '')
StripMappedPrefix(ip) ==
    IF \E i \in 1..Len(ip) : StartsWith(Drop(ip, i - 1), "::ffff:")
    THEN LET i == CHOOSE j \in 1..Len(ip) :
                    /\ StartsWith(Drop(ip, j - 1), "::ffff:")
                    /\ \A k \in 1..(j - 1) : ~StartsWith(Drop(ip, k - 1), "::ffff:")
         IN  SubSeq(ip, 1, i - 1) \o Drop(ip, i + 6)
    ELSE ip

ClientIp == "::ffff:203.0.113.7"

\* const metadata = { requestId, userIp, username, serverProvider }
TrackingMetadata(body) ==
    [t |-> "object", userIp |-> StripMappedPrefix(ClientIp),
     username |-> body.username, serverProvider |-> body.serverProvider]

\* the arguments of stripe.checkout.sessions.create
CreateArgs(body, unitAmount, metadata, expiresInMinutes) ==
    [api |-> "checkout.sessions.create",
     name |-> "Game: " \o body.serverProvider \o " - Username: " \o body.username,
     unit_amount |-> unitAmount,
     metadata |-> metadata,
     expiresInMinutes |-> expiresInMinutes]

MissingFields ==
    Response(400, [status |-> "error", message |-> "Missing required fields"])
InvalidAmount ==
    Response(400, [status |-> "error",
                   message |-> "Invalid amount. Must be a positive number less than 10,000"])

\* if (!serverProvider || !username || !amount)
FieldsMissing(body) ==
    Falsy(body.serverProvider) \/ Falsy(body.username) \/ FalsyAmount(body.amount)

\* if (isNaN(amountFloat) || amountFloat <= 0 || amountFloat > 10000)
AmountRejected(amountFloat) ==
    IsNaN(amountFloat) \/ LteZero(amountFloat) \/ GtInt(amountFloat, MaxAmount)

\* details: process.env.NODE_ENV === 'development' ? error.message : 'Internal server error'
ErrorDetails(env, error) ==
    IF env = "development" THEN error.message ELSE "Internal server error"

SessionExpiryMinutes == 30

(***************************************************************************)
(* POST /checkout of the standalone server (index.js), up to the await of  *)
(* stripe.checkout.sessions.create, and from its return on.                *)
(***************************************************************************)
CheckoutStandaloneBegin(body) ==
    IF FieldsMissing(body) THEN Reply(MissingFields)
    ELSE LET amountFloat == ParseFloat(body.amount.text)
         IN  IF AmountRejected(amountFloat) THEN Reply(InvalidAmount)
             ELSE Await("awaitCreate",
                        CreateArgs(body, MathRoundTimes100(amountFloat),
                                   TrackingMetadata(body), SessionExpiryMinutes))

CheckoutStandaloneEnd(env, outcome) ==
    IF outcome.ok
    THEN Response(200, [status |-> "success", url |-> outcome.session.url,
                        sessionId |-> outcome.session.id])
    ELSE Response(500, [status |-> "error",
                        message |-> "An error occurred while processing the payment",
                        details |-> ErrorDetails(env, outcome.error)])

(***************************************************************************)
(* POST /checkout of the earlier server (second file of index.js): no      *)
(* amount validation, no metadata, no expiry, no sessionId in the reply,   *)
(* and the error message always in details.                                *)
(***************************************************************************)
CheckoutEarlierBegin(body) ==
    IF FieldsMissing(body) THEN Reply(MissingFields)
    ELSE Await("awaitCreate",
               CreateArgs(body, MathRoundTimes100(ParseFloat(body.amount.text)),
                          NullObject, 0))

CheckoutEarlierEnd(env, outcome) ==
    IF outcome.ok
    THEN Response(200, [status |-> "success", url |-> outcome.session.url])
    ELSE Response(500, [status |-> "error",
                        message |-> "An error occurred while processing the payment",
                        details |-> outcome.error.message])

(***************************************************************************)
(* POST /checkout of the router (routes/paymentRoutes.js).                 *)
(***************************************************************************)
CheckoutRouterBegin(body) ==
    IF FieldsMissing(body) THEN Reply(MissingFields)
    ELSE LET amountFloat == ParseFloat(body.amount.text)
         IN  IF AmountRejected(amountFloat) THEN Reply(InvalidAmount)
             ELSE Await("awaitCreate",
                        CreateArgs(body, MathRoundTimes100(amountFloat),
                                   TrackingMetadata(body), SessionExpiryMinutes))

CheckoutRouterEnd(env, outcome) ==
    IF outcome.ok
    THEN Response(200, [status |-> "success", url |-> outcome.session.url,
                        sessionId |-> outcome.session.id])
    ELSE Response(500, [status |-> "error",
                        message |-> "An error occurred while processing the payment",
                        details |-> ErrorDetails(env, outcome.error)])

(***************************************************************************)
(* GET /verify-payment/:sessionId.                                         *)
(***************************************************************************)
\* path parameters: too short, not a checkout session id, well-formed but never
\* issued, and the id of the session the processor holds
UnknownSessionId == "cs_test_unknown00"
SessionIds == {"cs_1", "pi_3NabcdefghiJ", UnknownSessionId, SessionId}

PaidIntent ==
    [t |-> "object", id |-> "pi_3NxYz0123", method |-> "card",
     receipt_url |-> "https://pay.stripe.com/receipts/r_1"]
Customer == [t |-> "object", email |-> "alice@example.com", name |-> "Alice"]

MaxCents == 2599
AmountTotals == {NullNumber, Cents(0), Cents(MaxCents)}

\* the states the processor's session may be in when it is retrieved: unpaid,
\* or paid with or without an expanded payment intent
RetrievedSessions ==
    { [NoSession EXCEPT !.id = SessionId,
                        !.payment_status = "unpaid",
                        !.amount_total = at,
                        !.currency = "usd"]
      : at \in AmountTotals }
    \cup
    { [NoSession EXCEPT !.id = SessionId,
                        !.payment_status = "paid",
                        !.amount_total = at,
                        !.currency = "usd",
                        !.customer_details = Customer,
                        !.payment_intent = PaidIntent]
      : at \in AmountTotals }
    \cup
    { [NoSession EXCEPT !.id = SessionId,
                        !.payment_status = "paid",
                        !.amount_total = Cents(MaxCents),
                        !.currency = "usd",
                        !.customer_details = Customer] }

\* the processor's report of an unknown session id
NoSuchSession(id) ==
    [type |-> "StripeInvalidRequestError",
     message |-> "No such checkout.session: " \o id]
OtherInvalidRequest ==
    [type |-> "StripeInvalidRequestError",
     message |-> "This property cannot be expanded (line_items)."]
ConnectionError ==
    [type |-> "StripeConnectionError",
     message |-> "An error occurred with our connection to Stripe."]

\* the processor knows the session it issued and no other id
RetrieveOutcomes(id) ==
    IF id = SessionId
    THEN {Resolved(s) : s \in RetrievedSessions}
            \cup {Threw(OtherInvalidRequest), Threw(ConnectionError)}
    ELSE {Threw(NoSuchSession(id)), Threw(ConnectionError)}

RetrieveArgs(id, expand) ==
    [api |-> "checkout.sessions.retrieve", id |-> id, expand |-> expand]

\* x / 100 for a minor-unit amount x (null converts to 0, undefined to NaN)
DividedBy100(x) ==
    CASE x.t = "number" -> Num(x.n * (Scale \div 100))
      [] x.t = "null" -> Num(0)
      [] OTHER -> NaN

\* session.amount_total ? (session.amount_total / 100).toFixed(2) : null
FormattedAmount(x) ==
    IF x.t = "number" /\ x.n # 0 THEN ToFixed2(DividedBy100(x)) ELSE Null

\* v || null for a string-valued field
OrNull(v) == IF Falsy(v) THEN Null ELSE v

CustomerDetails(session) ==
    [email |-> OrNull(session.customer_details.email),
     name |-> OrNull(session.customer_details.name)]

VerifyStandaloneBegin(sessionId) ==
    IF Falsy(sessionId) \/ Len(sessionId) < 10
    THEN Reply(Response(400, [status |-> "error",
                              message |-> "Valid session ID is required"]))
    ELSE IF ~StartsWith(sessionId, "cs_")
    THEN Reply(Response(400, [status |-> "error",
                              message |-> "Invalid session ID format"]))
    ELSE Await("awaitRetrieve",
               RetrieveArgs(sessionId, <<"payment_intent", "line_items">>))

VerifyStandaloneEnd(env, outcome) ==
    IF outcome.ok
    THEN LET session == outcome.session
         IN  Response(200,
                [status |-> "success",
                 paymentStatus |-> session.payment_status,
                 amount |-> FormattedAmount(session.amount_total),
                 customerDetails |-> CustomerDetails(session),
                 paymentDetails |->
                    IF session.payment_status = "paid"
                    THEN [t |-> "object",
                          paymentMethod |-> OrNull(session.payment_intent.method),
                          paymentId |-> OrNull(session.payment_intent.id),
                          receiptUrl |-> OrNull(session.payment_intent.receipt_url)]
                    ELSE NullObject])
    ELSE IF /\ outcome.error.type = "StripeInvalidRequestError"
            /\ Includes(outcome.error.message, "No such checkout.session")
    THEN Response(404, [status |-> "error", message |-> "Payment session not found"])
    ELSE Response(500, [status |-> "error",
                        message |-> "Failed to verify payment status",
                        details |-> ErrorDetails(env, outcome.error)])

VerifyEarlierBegin(sessionId) ==
    IF Falsy(sessionId)
    THEN Reply(Response(400, [status |-> "error", message |-> "Session ID is required"]))
    ELSE Await("awaitRetrieve",
               RetrieveArgs(sessionId, <<"payment_intent", "line_items">>))

VerifyEarlierEnd(env, outcome) ==
    IF outcome.ok
    THEN LET session == outcome.session
         IN  Response(200,
                [status |-> "success",
                 paymentStatus |-> session.payment_status,
                 amount |-> FormattedAmount(session.amount_total),
                 customerDetails |-> CustomerDetails(session)])
    ELSE Response(500, [status |-> "error",
                        message |-> "Failed to verify payment status",
                        details |-> outcome.error.message])

VerifyRouterBegin(sessionId) ==
    IF Falsy(sessionId)
    THEN Reply(Response(400, [status |-> "error", message |-> "Session ID is required"]))
    ELSE Await("awaitRetrieve", RetrieveArgs(sessionId, <<>>))

VerifyRouterEnd(env, outcome) ==
    IF outcome.ok
    THEN LET session == outcome.session
             details == [t |-> "object",
                         amount |-> DividedBy100(session.amount_total),
                         currency |-> session.currency]
         IN  IF session.payment_status = "paid"
             THEN Response(200, [status |-> "success", paymentStatus |-> "paid",
                                 paymentDetails |-> details])
             ELSE Response(200, [status |-> "success",
                                 paymentStatus |-> session.payment_status,
                                 paymentDetails |-> details])
    ELSE Response(500, [status |-> "error", message |-> "Failed to verify payment"])

(***************************************************************************)
(* The notification sender (utils/emailService.js, and its earlier         *)
(* version).                                                               *)
(***************************************************************************)
UndefinedNumber == [t |-> "undefined", milli |-> 0]

\* Number-to-string conversion, as parseFloat applies it to a number argument
NumberToString(x) ==
    IF x.t # "number" THEN x.t
    ELSE LET mag == IF x.milli < 0 THEN 0 - x.milli ELSE x.milli
             f == mag % Scale
             frac == IF f = 0 THEN ""
                     ELSE IF f % 100 = 0 THEN "." \o DigitStr(f \div 100)
                     ELSE IF f % 10 = 0
                          THEN "." \o DigitStr(f \div 100) \o DigitStr((f \div 10) % 10)
                     ELSE "." \o DigitStr(f \div 100) \o DigitStr((f \div 10) % 10)
                              \o DigitStr(f % 10)
         IN  (IF x.milli < 0 THEN "-" ELSE "") \o IntStr(mag \div Scale) \o frac

\* ${v} in a template literal, for a string-valued field
Interpolate(v) ==
    CASE v = Undefined -> "undefined" [] v = Null -> "null" [] OTHER -> v

PaymentData(serverProvider, username, amount, paymentId) ==
    [t |-> "object", serverProvider |-> serverProvider, username |-> username,
     amount |-> amount, paymentId |-> paymentId]
NoPaymentData ==
    [t |-> "undefined", serverProvider |-> Undefined, username |-> Undefined,
     amount |-> UndefinedNumber, paymentId |-> Undefined]

OperatorAddress == "storemf69@gmail.com"

\* the list items of the html body
HtmlDetails(paymentData) ==
    <<"$" \o ToFixed2(ParseFloat(NumberToString(paymentData.amount))),
      Interpolate(paymentData.serverProvider),
      Interpolate(paymentData.username),
      Interpolate(paymentData.paymentId)>>

Settled(how, value) == [kind |-> how, value |-> value, call |-> NoCall]
Sending(mailOptions) == [kind |-> "await", value |-> FALSE, call |-> mailOptions]

\* sendPaymentConfirmation up to its await of transporter.sendMail
SendPaymentConfirmationBegin(paymentData) ==
    IF paymentData.t # "object"
    THEN Settled("rejected", FALSE)              \* destructuring, outside the try
    ELSE IF paymentData.paymentId \in {Undefined, Null}
    THEN Settled("resolved", FALSE)              \* paymentId.substring throws, caught
    ELSE Sending([api |-> "transporter.sendMail",
                  to |-> OperatorAddress,
                  subject |-> "New Payment Received - "
                                 \o Interpolate(paymentData.serverProvider) \o " - "
                                 \o Interpolate(paymentData.username) \o " - ID: "
                                 \o SubSeq(paymentData.paymentId, 1, 8),
                  transactionId |-> paymentData.paymentId,
                  html |-> HtmlDetails(paymentData)])

\* sendPaymentConfirmation from the return of transporter.sendMail on
SendPaymentConfirmationEnd(outcome) ==
    IF outcome.ok THEN Settled("resolved", TRUE) ELSE Settled("resolved", FALSE)

\* the earlier version: a fixed subject and no headers, so nothing is read
\* from paymentId before the send
EarlierSendPaymentConfirmationBegin(paymentData) ==
    IF paymentData.t # "object"
    THEN Settled("rejected", FALSE)
    ELSE Sending([api |-> "transporter.sendMail",
                  to |-> OperatorAddress,
                  subject |-> "New Payment Received",
                  transactionId |-> Undefined,
                  html |-> HtmlDetails(paymentData)])

EarlierSendPaymentConfirmationEnd(outcome) ==
    IF outcome.ok THEN Settled("resolved", TRUE) ELSE Settled("resolved", FALSE)

\* the version of the sender that the running server has loaded
SenderBegin(version, paymentData) ==
    IF version = "current" THEN SendPaymentConfirmationBegin(paymentData)
    ELSE EarlierSendPaymentConfirmationBegin(paymentData)
SenderEnd(version, outcome) ==
    IF version = "current" THEN SendPaymentConfirmationEnd(outcome)
    ELSE EarlierSendPaymentConfirmationEnd(outcome)

SmtpError == [type |-> "Error", message |-> "Invalid login: 535 Authentication failed"]
MailOutcomes == {Resolved(NoSession), Threw(SmtpError)}

(***************************************************************************)
(* POST /webhook (handleWebhook in routes/paymentRoutes.js).               *)
(***************************************************************************)
WebhookSecret == "whsec_live"

\* the stripe-signature header is named by the secret that signed the body
\* stripe.webhooks.constructEvent(req.body, sig, secret): the parsed event,
\* or an error when the header is missing or was not made with the secret
ConstructEvent(body, sig, secret) ==
    IF sig = Undefined
    THEN [ok |-> FALSE, event |-> body,
          message |-> "Unable to extract timestamp and signatures from header"]
    ELSE IF sig # secret
    THEN [ok |-> FALSE, event |-> body,
          message |-> "No signatures found matching the expected signature for payload"]
    ELSE [ok |-> TRUE, event |-> body, message |-> ""]

SessionMetadata ==
    { NoMetadata,
      [t |-> "object", username |-> Undefined, serverProvider |-> Undefined],
      [t |-> "object", username |-> "alice", serverProvider |-> "Steam"] }

EventTypes == {"checkout.session.completed", "payment_intent.succeeded"}

WebhookEvents ==
    { [type |-> ty,
       object |-> [NoSession EXCEPT !.id = SessionId,
                                    !.payment_status = st,
                                    !.amount_total = at,
                                    !.metadata = md]]
      : ty \in EventTypes, st \in {"paid", "unpaid"},
        at \in {Cents(MaxCents)}, md \in SessionMetadata }

Acknowledged == Response(200, <<>>)

Invoking(step, paymentData) == [step EXCEPT !.invoked = <<paymentData>>]

\* handleWebhook without the return in the catch of the signature check
HandleWebhookBeginUnverified(version, sig, body) ==
    LET session == body.object
    IN  IF body.type = "checkout.session.completed" /\ session.payment_status = "paid"
        THEN IF session.metadata.t # "object"
             THEN Reply(Acknowledged)
             ELSE LET paymentData ==
                          PaymentData(session.metadata.serverProvider,
                                      session.metadata.username,
                                      DividedBy100(session.amount_total),
                                      session.id)
                      sender == SenderBegin(version, paymentData)
                  IN  Invoking(IF sender.kind = "await"
                               THEN Await("awaitMail", sender.call)
                               ELSE Reply(Acknowledged),
                               paymentData)
        ELSE Reply(Acknowledged)

\* handleWebhook up to the await inside sendPaymentConfirmation
HandleWebhookBegin(version, sig, body) ==
    LET verified == ConstructEvent(body, sig, WebhookSecret)
        event == verified.event
        session == event.object
    IN  IF ~verified.ok
        THEN Reply(Response(400, [text |-> "Webhook Error: " \o verified.message]))
        ELSE IF event.type = "checkout.session.completed" /\ session.payment_status = "paid"
        THEN IF session.metadata.t # "object"
             THEN Reply(Acknowledged)      \* destructuring throws inside the try
             ELSE LET paymentData ==
                          PaymentData(session.metadata.serverProvider,
                                      session.metadata.username,
                                      DividedBy100(session.amount_total),
                                      session.id)
                      sender == SenderBegin(version, paymentData)
                  IN  Invoking(IF sender.kind = "await"
                               THEN Await("awaitMail", sender.call)
                               ELSE Reply(Acknowledged),
                               paymentData)
        ELSE Reply(Acknowledged)

\* handleWebhook surfacing a failed notification to the processor
HandleWebhookEndSurfacing(settled) ==
    IF settled.kind = "resolved" /\ settled.value THEN Acknowledged
    ELSE Response(500, [text |-> "Notification failed"])

\* handleWebhook from the settling of sendPaymentConfirmation on
HandleWebhookEnd(settled) == Acknowledged

(***************************************************************************)
(* The state machine.                                                      *)
(***************************************************************************)
NoRequest == [route |-> "none"]
NoPromise == [kind |-> "none", value |-> FALSE, call |-> NoCall]
Pending == [kind |-> "pending", value |-> FALSE, call |-> NoCall]

Deployments == {"standalone", "earlier", "router"}
Mailers == {"current", "earlier"}
NodeEnvs == {"development", "production"}

Init ==
    /\ deployment \in Deployments
    /\ mailer \in Mailers
    /\ (deployment # "router" => mailer = "current")
    /\ nodeEnv \in NodeEnvs
    /\ pc = [r \in Slots |-> "idle"]
    /\ req = [r \in Slots |-> NoRequest]
    /\ calls = [r \in Slots |-> <<>>]
    /\ ret = [r \in Slots |-> NoReturn]
    /\ resp = [r \in Slots |-> <<>>]
    /\ invocations = [r \in Slots |-> <<>>]
    /\ promise = [r \in Slots |-> NoPromise]

\* slots are taken in order: which slot a request gets is immaterial
Free(r) == pc[r] = "idle" /\ \A q \in Slots : q < r => pc[q] # "idle"

\* a request arrives in slot r and its handler runs up to its first await
Begin(r, request, step) ==
    /\ Free(r)
    /\ req' = [req EXCEPT ![r] = request]
    /\ pc' = [pc EXCEPT ![r] = step.next]
    /\ calls' = [calls EXCEPT ![r] = IF step.kind = "await" THEN Append(@, step.call) ELSE @]
    /\ resp' = [resp EXCEPT ![r] = IF step.kind = "reply" THEN Append(@, step.response) ELSE @]
    /\ invocations' = [invocations EXCEPT ![r] = @ \o step.invoked]
    /\ UNCHANGED <<deployment, mailer, nodeEnv, ret, promise>>

\* End with the awaited call issued again when it failed
EndRetrying(r, label, outcome, response) ==
    /\ pc[r] = label
    /\ ret' = [ret EXCEPT ![r] = outcome]
    /\ IF ~outcome.ok /\ Len(calls[r]) < 2
       THEN /\ calls' = [calls EXCEPT ![r] = Append(@, @[1])]
            /\ UNCHANGED <<pc, resp>>
       ELSE /\ pc' = [pc EXCEPT ![r] = "done"]
            /\ resp' = [resp EXCEPT ![r] = Append(@, response)]
            /\ UNCHANGED calls
    /\ UNCHANGED <<deployment, mailer, nodeEnv, req, invocations, promise>>

\* the awaited call of slot r returns and the handler runs to its end
End(r, label, outcome, response) ==
    /\ pc[r] = label
    /\ ret' = [ret EXCEPT ![r] = outcome]
    /\ pc' = [pc EXCEPT ![r] = "done"]
    /\ resp' = [resp EXCEPT ![r] = Append(@, response)]
    /\ UNCHANGED <<deployment, mailer, nodeEnv, req, calls, invocations, promise>>

CheckoutRequest(body) == [route |-> "POST /checkout", body |-> body]
VerifyRequest(id) == [route |-> "GET /verify-payment", sessionId |-> id]
WebhookRequest(sig, body) == [route |-> "POST /webhook", signature |-> sig, body |-> body]
SenderRequest(paymentData) ==
    [route |-> "sendPaymentConfirmation", paymentData |-> paymentData]

CheckoutStandalone(r) ==
    /\ deployment = "standalone"
    /\ \E body \in CheckoutBodies :
          Begin(r, CheckoutRequest(body), CheckoutStandaloneBegin(body))

CheckoutStandaloneReturn(r) ==
    /\ deployment = "standalone"
    /\ \E outcome \in CreateOutcomes :
          End(r, "awaitCreate", outcome, CheckoutStandaloneEnd(nodeEnv, outcome))

CheckoutEarlier(r) ==
    /\ deployment = "earlier"
    /\ \E body \in CheckoutBodies :
          Begin(r, CheckoutRequest(body), CheckoutEarlierBegin(body))

CheckoutEarlierReturn(r) ==
    /\ deployment = "earlier"
    /\ \E outcome \in CreateOutcomes :
          End(r, "awaitCreate", outcome, CheckoutEarlierEnd(nodeEnv, outcome))

CheckoutRouter(r) ==
    /\ deployment = "router"
    /\ \E body \in CheckoutBodies :
          Begin(r, CheckoutRequest(body), CheckoutRouterBegin(body))

CheckoutRouterReturn(r) ==
    /\ deployment = "router"
    /\ \E outcome \in CreateOutcomes :
          End(r, "awaitCreate", outcome, CheckoutRouterEnd(nodeEnv, outcome))

VerifyStandalone(r) ==
    /\ deployment = "standalone"
    /\ \E id \in SessionIds : Begin(r, VerifyRequest(id), VerifyStandaloneBegin(id))

VerifyStandaloneReturn(r) ==
    /\ deployment = "standalone"
    /\ pc[r] = "awaitRetrieve"
    /\ \E outcome \in RetrieveOutcomes(req[r].sessionId) :
          End(r, "awaitRetrieve", outcome, VerifyStandaloneEnd(nodeEnv, outcome))

VerifyEarlier(r) ==
    /\ deployment = "earlier"
    /\ \E id \in SessionIds : Begin(r, VerifyRequest(id), VerifyEarlierBegin(id))

VerifyEarlierReturn(r) ==
    /\ deployment = "earlier"
    /\ pc[r] = "awaitRetrieve"
    /\ \E outcome \in RetrieveOutcomes(req[r].sessionId) :
          End(r, "awaitRetrieve", outcome, VerifyEarlierEnd(nodeEnv, outcome))

VerifyRouter(r) ==
    /\ deployment = "router"
    /\ \E id \in SessionIds : Begin(r, VerifyRequest(id), VerifyRouterBegin(id))

VerifyRouterReturn(r) ==
    /\ deployment = "router"
    /\ pc[r] = "awaitRetrieve"
    /\ \E outcome \in RetrieveOutcomes(req[r].sessionId) :
          End(r, "awaitRetrieve", outcome, VerifyRouterEnd(nodeEnv, outcome))

\* deliveries: every event signed with the shared secret or with another one,
\* and one delivery without the signature header
WebhookDeliveries ==
    { WebhookRequest(sig, body) : sig \in {"whsec_forged", WebhookSecret}, body \in WebhookEvents }
        \cup { WebhookRequest(Undefined, body)
               : body \in {e \in WebhookEvents :
                              /\ e.type = "checkout.session.completed"
                              /\ e.object.payment_status = "paid"
                              /\ e.object.metadata.username = "alice"} }

\* POST /webhook is routed to handleWebhook by the router-based server only
HandleWebhook(r) ==
    /\ deployment = "router"
    /\ \E request \in WebhookDeliveries :
          Begin(r, request, HandleWebhookBegin(mailer, request.signature, request.body))

\* transporter.sendMail returns, sendPaymentConfirmation settles, the handler ends
HandleWebhookReturn(r) ==
    /\ deployment = "router"
    /\ \E outcome \in MailOutcomes :
          End(r, "awaitMail", outcome, HandleWebhookEnd(SenderEnd(mailer, outcome)))

PaymentDataInputs ==
    {NoPaymentData}
        \cup { PaymentData("Steam", un, am, id)
               : un \in {"alice"}, am \in {UndefinedNumber, Num(25990)},
                 id \in {Undefined, SessionId} }

\* any caller of the exported sendPaymentConfirmation
SenderCall(r) ==
    /\ deployment = "router"
    /\ Free(r)
    /\ \E paymentData \in PaymentDataInputs :
          LET s == SenderBegin(mailer, paymentData)
          IN  /\ req' = [req EXCEPT ![r] = SenderRequest(paymentData)]
              /\ invocations' = [invocations EXCEPT ![r] = Append(@, paymentData)]
              /\ pc' = [pc EXCEPT ![r] = IF s.kind = "await" THEN "awaitTransport" ELSE "done"]
              /\ calls' = [calls EXCEPT ![r] = IF s.kind = "await" THEN Append(@, s.call) ELSE @]
              /\ promise' = [promise EXCEPT ![r] = IF s.kind = "await" THEN Pending ELSE s]
    /\ UNCHANGED <<deployment, mailer, nodeEnv, ret, resp>>

SenderReturn(r) ==
    /\ pc[r] = "awaitTransport"
    /\ \E outcome \in MailOutcomes :
          /\ ret' = [ret EXCEPT ![r] = outcome]
          /\ promise' = [promise EXCEPT ![r] = SenderEnd(mailer, outcome)]
    /\ pc' = [pc EXCEPT ![r] = "done"]
    /\ UNCHANGED <<deployment, mailer, nodeEnv, req, calls, resp, invocations>>

Next ==
    \E r \in Slots :
        \/ CheckoutStandalone(r)
        \/ CheckoutStandaloneReturn(r)
        \/ CheckoutEarlier(r)
        \/ CheckoutEarlierReturn(r)
        \/ CheckoutRouter(r)
        \/ CheckoutRouterReturn(r)
        \/ VerifyStandalone(r)
        \/ VerifyStandaloneReturn(r)
        \/ VerifyEarlier(r)
        \/ VerifyEarlierReturn(r)
        \/ VerifyRouter(r)
        \/ VerifyRouterReturn(r)
        \/ HandleWebhook(r)
        \/ HandleWebhookReturn(r)
        \/ SenderCall(r)
        \/ SenderReturn(r)

Spec == Init /\ [][Next]_vars


(***************************************************************************)
(* Vocabulary of the properties.                                           *)
(***************************************************************************)
IsWebhook(r) == req[r].route = "POST /webhook"
IsCheckout(r) == req[r].route = "POST /checkout"
IsVerify(r) == req[r].route = "GET /verify-payment"
IsSenderCall(r) == req[r].route = "sendPaymentConfirmation"

\* the one response of a request that has been answered
Answered(r) == Len(resp[r]) = 1
Answer(r) == resp[r][1]

\* the signature header was made with the shared secret
SignatureVerifies(r) == req[r].signature = WebhookSecret

\* the event is a completed checkout session whose payment status is paid
Qualifies(r) ==
    /\ req[r].body.type = "checkout.session.completed"
    /\ req[r].body.object.payment_status = "paid"

(***************************************************************************)
(* C1.  A webhook request whose signature verification fails is answered   *)
(* 400 and never reaches the notification sender (nor the mail transport), *)
(* whatever the event type and the payment status of its body.             *)
(***************************************************************************)
C1_InvalidSignatureRejected ==
    \A r \in Slots :
        (IsWebhook(r) /\ ~SignatureVerifies(r)) =>
            /\ pc[r] = "done"
            /\ Answered(r)
            /\ Answer(r).code = 400
            /\ invocations[r] = <<>>
            /\ calls[r] = <<>>

C1_Witness ==
    \E r \in Slots :
        /\ IsWebhook(r)
        /\ req[r].signature = "whsec_forged"
        /\ Qualifies(r)
        /\ req[r].body.object.metadata.t = "object"
        /\ Answered(r)
        /\ Answer(r).code = 400

(***************************************************************************)
(* C2.  A webhook request whose signature verifies invokes the             *)
(* notification sender exactly once, with amount = amount_total / 100 and  *)
(* paymentId = the session id, when the event is a completed checkout      *)
(* session that is paid, and never otherwise.                              *)
(***************************************************************************)
C2_NotifiedExactlyOncePerPaidSession ==
    \A r \in Slots :
        (IsWebhook(r) /\ SignatureVerifies(r)) =>
            IF Qualifies(r)
            THEN /\ Len(invocations[r]) = 1
                 /\ invocations[r][1].amount.t = "number"
                 /\ invocations[r][1].amount.milli * 100
                        = req[r].body.object.amount_total.n * Scale
                 /\ invocations[r][1].paymentId = req[r].body.object.id
            ELSE invocations[r] = <<>>

\* what the handler does guarantee: C2 for sessions that carry a metadata object
C2_NotifiedWhenMetadataPresent ==
    \A r \in Slots :
        (IsWebhook(r) /\ SignatureVerifies(r)) =>
            IF Qualifies(r) /\ req[r].body.object.metadata.t = "object"
            THEN /\ Len(invocations[r]) = 1
                 /\ invocations[r][1].amount.milli * 100
                        = req[r].body.object.amount_total.n * Scale
                 /\ invocations[r][1].paymentId = req[r].body.object.id
            ELSE invocations[r] = <<>>

(***************************************************************************)
(* C3.  Once the signature has verified, the webhook handler answers 200   *)
(* and nothing else: for every event type and payment status, when the     *)
(* sender returns false, and when the session carries no metadata.  Until  *)
(* the mail send returns, no answer has been sent.                         *)
(***************************************************************************)
C3_VerifiedWebhookAcknowledged ==
    \A r \in Slots :
        (IsWebhook(r) /\ SignatureVerifies(r)) =>
            \/ pc[r] = "awaitMail" /\ resp[r] = <<>>
            \/ pc[r] = "done" /\ Answered(r) /\ Answer(r).code = 200

C3_Witness ==
    \E r, q \in Slots :
        /\ IsWebhook(r) /\ SignatureVerifies(r) /\ Qualifies(r)
        /\ pc[r] = "done"
        /\ ~ret[r].ok /\ ret[r].error = SmtpError
        /\ Answer(r).code = 200
        /\ IsWebhook(q) /\ SignatureVerifies(q) /\ Qualifies(q)
        /\ req[q].body.object.metadata.t = "null"
        /\ pc[q] = "done"
        /\ Answer(q).code = 200

(***************************************************************************)
(* C4.  POST /checkout with serverProvider and username present and an     *)
(* amount that is <= 0, > 10000 or not a number (a string with a numeric   *)
(* prefix such as 12abc included) is answered 400 and makes no call to the *)
(* payment processor.                                                      *)
(***************************************************************************)
\* the whole text is a decimal literal: sign, digits, at most one point
IsNumeric(s) ==
    LET u == IF Len(s) > 0 /\ CharAt(s, 1) \in {"+", "-"} THEN Drop(s, 1) ELSE s
    IN  /\ \A i \in 1..Len(u) : CharAt(u, i) \in Digit \cup {"."}
        /\ \E i \in 1..Len(u) : CharAt(u, i) \in Digit
        /\ Cardinality({i \in 1..Len(u) : CharAt(u, i) = "."}) <= 1

NamesPresent(r) ==
    ~Falsy(req[r].body.serverProvider) /\ ~Falsy(req[r].body.username)

\* the amount as sent, when it is numeric
AmountValue(r) == ParseFloat(req[r].body.amount.text)

RejectedWithoutCall(r) ==
    /\ pc[r] = "done"
    /\ Answered(r)
    /\ Answer(r).code = 400
    /\ calls[r] = <<>>

C4_BadAmountRejected ==
    \A r \in Slots :
        ( /\ IsCheckout(r)
          /\ NamesPresent(r)
          /\ req[r].body.amount.t # "undefined"
          /\ \/ ~IsNumeric(req[r].body.amount.text)
             \/ LteZero(AmountValue(r))
             \/ GtInt(AmountValue(r), 10000) )
        => RejectedWithoutCall(r)

\* what the validating handlers do guarantee: an amount that parseFloat turns
\* into NaN, a number <= 0 or a number > 10000 is rejected without a call
C4_ValidatingHandlersRejectWhatParsesBad ==
    \A r \in Slots :
        ( /\ IsCheckout(r)
          /\ deployment \in {"standalone", "router"}
          /\ \/ IsNaN(AmountValue(r))
             \/ LteZero(AmountValue(r))
             \/ GtInt(AmountValue(r), 10000) )
        => RejectedWithoutCall(r)

(***************************************************************************)
(* C5.  POST /checkout calls the payment processor only when all three     *)
(* fields are present and the amount parses as a positive finite number    *)
(* strictly less than 10000; amount = 10000 is answered with a client      *)
(* error and no call.                                                      *)
(***************************************************************************)
C5_CallOnlyBelowTenThousand ==
    \A r \in Slots :
        IsCheckout(r) =>
            /\ calls[r] # <<>> =>
                  /\ NamesPresent(r)
                  /\ ~FalsyAmount(req[r].body.amount)
                  /\ AmountValue(r).t = "number"
                  /\ AmountValue(r).milli > 0
                  /\ AmountValue(r).milli < 10000 * Scale
            /\ (NamesPresent(r) /\ AmountValue(r) = Num(10000 * Scale)) =>
                  RejectedWithoutCall(r)

\* what the validating handlers do guarantee: the bound is inclusive
C5_ValidatingHandlersCallUpToTenThousand ==
    \A r \in Slots :
        (IsCheckout(r) /\ deployment \in {"standalone", "router"} /\ calls[r] # <<>>) =>
            /\ NamesPresent(r)
            /\ ~FalsyAmount(req[r].body.amount)
            /\ AmountValue(r).t = "number"
            /\ AmountValue(r).milli > 0
            /\ AmountValue(r).milli <= 10000 * Scale

(***************************************************************************)
(* C6.  A POST /checkout response with status success (200) carries the    *)
(* url and the sessionId of the session the processor issued; an error     *)
(* response (400 or 500) carries neither.                                  *)
(***************************************************************************)
C6_SuccessCarriesUrlAndSessionId ==
    \A r \in Slots :
        (IsCheckout(r) /\ Answered(r)) =>
            LET b == Answer(r).body
            IN  /\ Answer(r).code \in {200, 400, 500}
                /\ Answer(r).code = 200 <=> b.status = "success"
                /\ Answer(r).code = 200 =>
                      /\ ret[r].ok
                      /\ "url" \in DOMAIN b /\ b.url = ret[r].session.url
                      /\ "sessionId" \in DOMAIN b /\ b.sessionId = ret[r].session.id
                /\ Answer(r).code # 200 =>
                      "url" \notin DOMAIN b /\ "sessionId" \notin DOMAIN b

\* what holds of the standalone server and of the router
C6_ExceptEarlierServer ==
    deployment # "earlier" => C6_SuccessCarriesUrlAndSessionId

(***************************************************************************)
(* C7.  GET /verify-payment/:sessionId is answered 404 with the message    *)
(* Payment session not found when the processor reports the id unknown,    *)
(* and 500 for every other processor error.                                *)
(***************************************************************************)
ProcessorThrew(r) == pc[r] = "done" /\ calls[r] # <<>> /\ ~ret[r].ok

C7_UnknownSessionIs404 ==
    \A r \in Slots :
        (IsVerify(r) /\ ProcessorThrew(r)) =>
            IF ret[r].error = NoSuchSession(req[r].sessionId)
            THEN /\ Answer(r).code = 404
                 /\ Answer(r).body.message = "Payment session not found"
            ELSE Answer(r).code = 500

\* what holds of the standalone server
C7_StandaloneOnly ==
    deployment = "standalone" => C7_UnknownSessionIs404

(***************************************************************************)
(* C8.  sendPaymentConfirmation never raises past its boundary: for every  *)
(* input its promise resolves, to true when the transport's send           *)
(* succeeded, to false when the transport threw or when the message could  *)
(* not be built (paymentId missing, or no paymentData at all).             *)
(***************************************************************************)
C8_SenderAlwaysResolves ==
    \A r \in Slots :
        (IsSenderCall(r) /\ pc[r] = "done") =>
            /\ promise[r].kind = "resolved"
            /\ (calls[r] # <<>> /\ ret[r].ok) => promise[r].value = TRUE
            /\ (calls[r] = <<>> \/ ~ret[r].ok) => promise[r].value = FALSE

\* what the sender does guarantee: C8 whenever it is given an object
C8_ResolvesGivenAnObject ==
    \A r \in Slots :
        (IsSenderCall(r) /\ pc[r] = "done" /\ req[r].paymentData.t = "object") =>
            /\ promise[r].kind = "resolved"
            /\ (calls[r] # <<>> /\ ret[r].ok) => promise[r].value = TRUE
            /\ (calls[r] = <<>> \/ ~ret[r].ok) => promise[r].value = FALSE

(***************************************************************************)
(* C9.  When the processor call of POST /checkout fails, the answer is 500 *)
(* with status error, and outside the development configuration no field   *)
(* of its body carries the processor's error message.                      *)
(***************************************************************************)
C9_NoProcessorMessageInProduction ==
    \A r \in Slots :
        (IsCheckout(r) /\ ProcessorThrew(r)) =>
            LET b == Answer(r).body
            IN  /\ Answer(r).code = 500
                /\ b.status = "error"
                /\ nodeEnv # "development" =>
                      \A k \in DOMAIN b : ~Includes(b[k], ret[r].error.message)

\* what holds of the standalone server and of the router
C9_ExceptEarlierServer ==
    deployment # "earlier" => C9_NoProcessorMessageInProduction

(***************************************************************************)
(* C10.  In a successful GET /verify-payment/:sessionId response,          *)
(* paymentDetails (payment method type, payment identifier, receipt URL)   *)
(* is present only when the session is paid and is null otherwise, and     *)
(* amount is the session's minor-unit total divided by 100 written with    *)
(* two decimals.                                                           *)
(***************************************************************************)
\* str is the two-decimal writing of cents / 100
TwoDecimalsOf(str, cents) ==
    /\ str # Null
    /\ Len(str) >= 4
    /\ CharAt(str, Len(str) - 2) = "."
    /\ \A i \in 1..Len(str) : i # Len(str) - 2 => CharAt(str, i) \in Digit
    /\ ParseFloat(str) = Num(cents * (Scale \div 100))

C10_PaymentDetailsOnlyWhenPaid ==
    \A r \in Slots :
        (IsVerify(r) /\ Answered(r) /\ Answer(r).code = 200) =>
            LET b == Answer(r).body
                session == ret[r].session
            IN  /\ "paymentDetails" \in DOMAIN b
                /\ IF session.payment_status = "paid"
                   THEN b.paymentDetails.t = "object" =>
                           {"paymentMethod", "paymentId", "receiptUrl"}
                               \subseteq DOMAIN b.paymentDetails
                   ELSE b.paymentDetails.t = "null"
                /\ session.amount_total.t = "number" =>
                      /\ "amount" \in DOMAIN b
                      /\ TwoDecimalsOf(b.amount, session.amount_total.n)

\* what the standalone server does guarantee: C10 for a non-zero total
C10_StandaloneNonZeroTotal ==
    \A r \in Slots :
        (IsVerify(r) /\ Answered(r) /\ Answer(r).code = 200 /\ deployment = "standalone") =>
            LET b == Answer(r).body
                session == ret[r].session
            IN  /\ IF session.payment_status = "paid"
                   THEN /\ b.paymentDetails.t = "object"
                        /\ {"paymentMethod", "paymentId", "receiptUrl"}
                               \subseteq DOMAIN b.paymentDetails
                   ELSE b.paymentDetails.t = "null"
                /\ (session.amount_total.t = "number" /\ session.amount_total.n # 0) =>
                      TwoDecimalsOf(b.amount, session.amount_total.n)

(***************************************************************************)
(* C11.  For every accepted checkout amount the unit_amount sent to the    *)
(* processor is amount x 100 rounded to the nearest integer, a half cent   *)
(* rounded up; in particular amount 49.995 is sent as 5000.                *)
(***************************************************************************)
\* x thousandths times 100, to the nearest integer, halves up (decimal arithmetic)
RoundHalfUpTimes100(milli) == (milli + 5) \div 10

\* the request of slot r was accepted: the processor was asked for a session
\* for an amount that is a number
Accepted(r) ==
    /\ IsCheckout(r)
    /\ calls[r] # <<>>
    /\ AmountValue(r).t = "number"

C11_UnitAmountRoundsHalfUp ==
    \A r \in Slots :
        Accepted(r) =>
            /\ calls[r][1].unit_amount.t = "number"
            /\ calls[r][1].unit_amount.n = RoundHalfUpTimes100(AmountValue(r).milli)
            /\ AmountValue(r) = Num(49995) => calls[r][1].unit_amount.n = 5000

\* what the handlers do guarantee: half-up of the double product, which is
\* the decimal half-up except where the double product falls below the half
C11_RoundsTheDoubleProduct ==
    \A r \in Slots :
        Accepted(r) =>
            /\ calls[r][1].unit_amount.t = "number"
            /\ calls[r][1].unit_amount.n =
                  IF AmountValue(r).milli \in BelowHalfInDouble
                  THEN RoundHalfUpTimes100(AmountValue(r).milli) - 1
                  ELSE RoundHalfUpTimes100(AmountValue(r).milli)
            /\ AmountValue(r) = Num(49995) => calls[r][1].unit_amount.n = 5000

\* the spec's example is accepted and sent as 5000
C11_ExampleReached ==
    \E r \in Slots :
        /\ Accepted(r)
        /\ req[r].body.amount = Str("49.995")
        /\ calls[r][1].unit_amount.n = 5000

(***************************************************************************)
(* C12.  In every handler and under any interleaving of concurrent         *)
(* requests, a request goes validate -> external call -> respond: it       *)
(* issues at most one external call (processor create, processor retrieve  *)
(* or mail send), issued when the request is taken up and never again, not *)
(* after a failure either; it sends exactly one HTTP response, none while  *)
(* the call is outstanding, and the response follows the return or the     *)
(* throw of the call (the webhook's 200 follows the mail send attempt); a  *)
(* step of one request changes nothing of another.                         *)
(***************************************************************************)
IsHttp(r) == IsCheckout(r) \/ IsVerify(r) \/ IsWebhook(r)

\* the external call of slot r has returned or thrown
Returned(r) == ret[r] # NoReturn

\* everything the model keeps of the request in slot r
SlotState(r) ==
    <<pc[r], req[r], calls[r], ret[r], resp[r], invocations[r], promise[r]>>

SequentialSoFar(r) ==
    /\ Len(calls[r]) <= 1
    /\ Len(resp[r]) <= 1
    /\ IsHttp(r) => (pc[r] = "done" <=> Answered(r))
    /\ (IsHttp(r) /\ pc[r] # "done") =>
          /\ Len(calls[r]) = 1
          /\ ~Returned(r)
          /\ resp[r] = <<>>
    /\ Returned(r) => Len(calls[r]) = 1
    /\ (Answered(r) /\ calls[r] # <<>>) => Returned(r)

SequentialStep(r) ==
    \* the call is issued when the request is taken up, after its validation
    /\ calls'[r] # calls[r] =>
          /\ req[r] = NoRequest
          /\ calls[r] = <<>>
          /\ Len(calls'[r]) = 1
    \* the call returns once, and its return ends the request: a failure is
    \* answered, not tried again
    /\ ret'[r] # ret[r] =>
          /\ ~Returned(r)
          /\ calls'[r] = calls[r]
          /\ pc'[r] = "done"
          /\ IsHttp(r) => Len(resp'[r]) = 1
          /\ (IsCheckout(r) /\ ~ret'[r].ok) => resp'[r][1].code = 500
          /\ (IsVerify(r) /\ ~ret'[r].ok) => resp'[r][1].code \in {404, 500}
    \* a finished request does nothing further
    /\ pc[r] = "done" => SlotState(r)' = SlotState(r)
    \* a step of this request leaves every other request alone
    /\ SlotState(r)' # SlotState(r) =>
          \A q \in Slots \ {r} : SlotState(q)' = SlotState(q)

C12_ValidateCallRespond ==
    /\ [](\A r \in Slots : SequentialSoFar(r))
    /\ [][\A r \in Slots : SequentialStep(r)]_vars

\* two requests interleaved: a checkout whose call failed has been answered
\* 500 after one call, while an earlier webhook still awaits its mail send
C12_Witness ==
    \E r, q \in Slots :
        /\ q < r
        /\ IsWebhook(q) /\ pc[q] = "awaitMail"
        /\ Len(calls[q]) = 1 /\ resp[q] = <<>>
        /\ IsCheckout(r) /\ pc[r] = "done"
        /\ Len(calls[r]) = 1 /\ Returned(r) /\ ~ret[r].ok
        /\ Answered(r) /\ Answer(r).code = 500

=============================================================================
